---- MODULE Spec2Model ----
(***************************************************************************)
(* Model of the in-memory store (server/storage.ts, class MemStorage) and  *)
(* of the HTTP handlers that call it (server/routes.ts).                   *)
(*                                                                         *)
(* Every entity Map of MemStorage is a function from ids to records.  The  *)
(* store hands out ids from counters that only grow and never re-inserts a *)
(* deleted key, so the insertion order in which a JavaScript Map iterates  *)
(* is the ascending order of the ids: values(m) lists a map in that order. *)
(*                                                                         *)
(* A MemStorage method holds no await on anything but already-settled      *)
(* promises, except createUser (bcrypt.hash) and the login handler         *)
(* (bcrypt.compare): a store method is one action, the register handler is *)
(* two (before and after the hash).                                        *)
(***************************************************************************)
EXTENDS Integers, Sequences, FiniteSets, TLC

VARIABLES users, posts, likes, comments, bookmarks, follows, messages,
          currentId, now, ret, postCreator, session, inflight, resp

store == <<users, posts, likes, comments, bookmarks, follows, messages, currentId>>
http == <<session, inflight, resp>>
vars == <<users, posts, likes, comments, bookmarks, follows, messages,
          currentId, now, ret, postCreator, session, inflight, resp>>

----------------------------------------------------------------------------
(* Bounds of the model *)

MaxUsers == 2
MaxPosts == 2
MaxLikes == 2
MaxBookmarks == 2
MaxComments == 2
MaxFollows == 2
MaxMessages == 3
MaxTime == 1
NumEmails == 2
NumUsernames == 2
NumPasswords == 1
NumClients == 2

\* the ids callers pass: the store never checks that a user or a post exists
UserIds == 1..MaxUsers
PostIds == 1..MaxPosts

\* an optional number that was not passed (userId?: number)
undefined == -1

\* the browsers that hold a session cookie
Clients == 1..NumClients

\* login data: a registered password or a wrong one
LoginData == [email : 1..NumEmails, password : 1..(NumPasswords + 1)]

\* the viewer of a read query: a user id, or none
Viewers == UserIds \cup {undefined}

\* registration data; display name, bio and avatar are only carried along
UserData == [email : 1..NumEmails, username : 1..NumUsernames, password : 1..NumPasswords]

\* post texts, as the store's own scenario has them
Hello == <<"H", "e", "l", "l", "o">>
World == <<"W", "o", "r", "l", "d">>
intro == <<"i", "n", "t", "r", "o">>

\* InsertPost records; excerpt and image are only carried along.  tags and
\* published are optional.
PostData ==
  {[title |-> Hello, content |-> World, authorId |-> a] : a \in UserIds}
  \cup {[title |-> Hello, content |-> World, authorId |-> a, tags |-> <<intro>>] : a \in UserIds}
  \cup {[title |-> World, content |-> Hello, authorId |-> a, published |-> b] :
           a \in UserIds, b \in BOOLEAN}

\* Partial<InsertPost> records
PostPatch ==
  {[published |-> b] : b \in BOOLEAN}
  \cup {[authorId |-> a] : a \in UserIds}
  \cup {[title |-> World, tags |-> <<>>]}

\* the post of the store's scenario: Alice (id 1) writes P
ScenarioPost == {[title |-> Hello, content |-> World, authorId |-> 1, tags |-> <<intro>>]}

\* registration data of users that differ in email and username
DistinctUsers == {[email |-> k, username |-> k, password |-> 1] : k \in 1..NumEmails}

\* InsertComment records; the content is only carried along
CommentData == [postId : PostIds, userId : UserIds]

\* InsertMessage records; isRead is optional
MessageData ==
  [senderId : UserIds, receiverId : UserIds, content : {Hello}]
  \cup [senderId : UserIds, receiverId : UserIds, content : {Hello}, isRead : BOOLEAN]

----------------------------------------------------------------------------
(* JavaScript helpers *)

\* the truthiness test of `userId ? ... : false` on an optional number
Truthy(x) == x # undefined /\ x # 0

Max(S) == CHOOSE x \in S : \A y \in S : y <= x
Min(S) == CHOOSE x \in S : \A y \in S : x <= y

EmptyMap == <<>>

\* Map.set of a new key, Map.delete
MapSet(m, id, rec) == [k \in DOMAIN m \cup {id} |-> IF k = id THEN rec ELSE m[k]]
MapDelete(m, id) == [k \in DOMAIN m \ {id} |-> m[k]]

\* Array.from(m.keys()): the keys in insertion order
keys(m) ==
  LET n == IF DOMAIN m = {} THEN 0 ELSE Max(DOMAIN m)
  IN SelectSeq([i \in 1..n |-> i], LAMBDA i : i \in DOMAIN m)

\* Array.from(m.values())
values(m) == LET ks == keys(m) IN [i \in 1..Len(ks) |-> m[ks[i]]]

\* Array.prototype.find / some / filter on a predicate: find gives the index of
\* the first match, 0 when there is none
FindIndex(s, P(_)) ==
  IF \E i \in 1..Len(s) : P(s[i]) THEN Min({i \in 1..Len(s) : P(s[i])}) ELSE 0
some(s, P(_)) == \E i \in 1..Len(s) : P(s[i])
filter(s, P(_)) == SelectSeq(s, P)

\* {...a, ...b}: the fields of b over those of a.  An optional field that was
\* not given, and a stored null, are a key that the record lacks.
Spread(a, b) == [k \in DOMAIN a \cup DOMAIN b |-> IF k \in DOMAIN b THEN b[k] ELSE a[k]]

\* const { password, ...rest } = r
Without(r, field) == [k \in DOMAIN r \ {field} |-> r[k]]

\* Array.prototype.sort is stable: s.sort((a, b) => Key(b) - Key(a)) puts an
\* element after every element with a larger key and after the earlier
\* elements with its own key
SortDescBy(s, Key(_)) ==
  LET pos(i) == 1 + Cardinality({j \in 1..Len(s) : Key(s[j]) > Key(s[i])})
                  + Cardinality({j \in 1..(i - 1) : Key(s[j]) = Key(s[i])})
  IN [p \in 1..Len(s) |-> s[CHOOSE i \in 1..Len(s) : pos(i) = p]]

\* s.sort((a, b) => Key(a) - Key(b))
SortAscBy(s, Key(_)) ==
  LET pos(i) == 1 + Cardinality({j \in 1..Len(s) : Key(s[j]) < Key(s[i])})
                  + Cardinality({j \in 1..(i - 1) : Key(s[j]) = Key(s[i])})
  IN [p \in 1..Len(s) |-> s[CHOOSE i \in 1..Len(s) : pos(i) = p]]

createdAtOf(r) == r.createdAt

\* Array.prototype.slice(start, end) for 0 <= start <= end
slice(s, start, end) ==
  LET lo == IF start > Len(s) THEN Len(s) ELSE start
      hi == IF end > Len(s) THEN Len(s) ELSE end
  IN IF hi <= lo THEN <<>> ELSE SubSeq(s, lo + 1, hi)

map(s, F(_)) == [i \in 1..Len(s) |-> F(s[i])]

\* strings are sequences of characters
toLowerChar(c) ==
  CASE c = "H" -> "h" [] c = "W" -> "w" [] c = "E" -> "e" [] c = "N" -> "n"
    [] c = "T" -> "t" [] OTHER -> c
toLowerCase(str) == [i \in 1..Len(str) |-> toLowerChar(str[i])]

\* String.prototype.includes
includes(str, q) ==
  \E i \in 0..(Len(str) - Len(q)) : \A k \in 1..Len(q) : str[i + k] = q[k]

\* Array.prototype.includes
arrayIncludes(arr, x) == \E i \in 1..Len(arr) : arr[i] = x

----------------------------------------------------------------------------
(* Construction *)

Init ==
  /\ users = EmptyMap
  /\ posts = EmptyMap
  /\ likes = EmptyMap
  /\ comments = EmptyMap
  /\ bookmarks = EmptyMap
  /\ follows = EmptyMap
  /\ messages = EmptyMap
  /\ currentId = [users |-> 1, posts |-> 1, likes |-> 1, comments |-> 1,
                  bookmarks |-> 1, follows |-> 1, messages |-> 1]
  /\ now = 0
  /\ ret = [op |-> "constructor", args |-> <<>>, val |-> undefined]
  /\ postCreator = EmptyMap
  /\ session = [c \in Clients |-> undefined]
  /\ inflight = {}
  /\ resp = [route |-> "none", status |-> 0, body |-> <<>>]

----------------------------------------------------------------------------
(* Like methods *)

sameUserPost(userId, postId, r) == r.userId = userId /\ r.postId = postId

\* a likePost that skips the lookup before the insert
likePost_NoLookup(userId, postId) ==
  /\ currentId.likes <= MaxLikes
  /\ LET id == currentId.likes
         like == [id |-> id, userId |-> userId, postId |-> postId, createdAt |-> now]
     IN /\ likes' = MapSet(likes, id, like)
        /\ currentId' = [currentId EXCEPT !.likes = id + 1]
        /\ ret' = [op |-> "likePost", args |-> <<userId, postId>>, val |-> like]
  /\ UNCHANGED <<users, posts, comments, bookmarks, follows, messages, postCreator>>

likePost(userId, postId) ==
  LET all == values(likes)
      existing == FindIndex(all, LAMBDA like : sameUserPost(userId, postId, like))
  IN /\ IF existing # 0
        THEN /\ ret' = [op |-> "likePost", args |-> <<userId, postId>>, val |-> all[existing]]
             /\ UNCHANGED <<likes, currentId>>
        ELSE /\ currentId.likes <= MaxLikes
             /\ LET id == currentId.likes
                    like == [id |-> id, userId |-> userId, postId |-> postId, createdAt |-> now]
                IN /\ likes' = MapSet(likes, id, like)
                   /\ currentId' = [currentId EXCEPT !.likes = id + 1]
                   /\ ret' = [op |-> "likePost", args |-> <<userId, postId>>, val |-> like]
     /\ UNCHANGED <<users, posts, comments, bookmarks, follows, messages, postCreator>>

unlikePost(userId, postId) ==
  LET ks == keys(likes)
      like == FindIndex(ks, LAMBDA k : sameUserPost(userId, postId, likes[k]))
  IN /\ IF like = 0
        THEN /\ ret' = [op |-> "unlikePost", args |-> <<userId, postId>>, val |-> FALSE]
             /\ UNCHANGED likes
        ELSE /\ likes' = MapDelete(likes, ks[like])
             /\ ret' = [op |-> "unlikePost", args |-> <<userId, postId>>, val |-> TRUE]
     /\ UNCHANGED <<users, posts, comments, bookmarks, follows, messages, currentId, postCreator>>

isPostLiked(userId, postId) ==
  some(values(likes), LAMBDA like : sameUserPost(userId, postId, like))

\* a like count that forgets to filter by post
getPostLikeCount_AllLikes(postId) == Len(values(likes))

getPostLikeCount(postId) ==
  Len(filter(values(likes), LAMBDA like : like.postId = postId))

----------------------------------------------------------------------------
(* Bookmark methods *)

bookmarkPost(userId, postId) ==
  LET all == values(bookmarks)
      existing == FindIndex(all, LAMBDA bookmark : sameUserPost(userId, postId, bookmark))
  IN /\ IF existing # 0
        THEN /\ ret' = [op |-> "bookmarkPost", args |-> <<userId, postId>>, val |-> all[existing]]
             /\ UNCHANGED <<bookmarks, currentId>>
        ELSE /\ currentId.bookmarks <= MaxBookmarks
             /\ LET id == currentId.bookmarks
                    bookmark == [id |-> id, userId |-> userId, postId |-> postId, createdAt |-> now]
                IN /\ bookmarks' = MapSet(bookmarks, id, bookmark)
                   /\ currentId' = [currentId EXCEPT !.bookmarks = id + 1]
                   /\ ret' = [op |-> "bookmarkPost", args |-> <<userId, postId>>, val |-> bookmark]
     /\ UNCHANGED <<users, posts, likes, comments, follows, messages, postCreator>>

unbookmarkPost(userId, postId) ==
  LET ks == keys(bookmarks)
      bookmark == FindIndex(ks, LAMBDA k : sameUserPost(userId, postId, bookmarks[k]))
  IN /\ IF bookmark = 0
        THEN /\ ret' = [op |-> "unbookmarkPost", args |-> <<userId, postId>>, val |-> FALSE]
             /\ UNCHANGED bookmarks
        ELSE /\ bookmarks' = MapDelete(bookmarks, ks[bookmark])
             /\ ret' = [op |-> "unbookmarkPost", args |-> <<userId, postId>>, val |-> TRUE]
     /\ UNCHANGED <<users, posts, likes, comments, follows, messages, currentId, postCreator>>

isPostBookmarked(userId, postId) ==
  some(values(bookmarks), LAMBDA bookmark : sameUserPost(userId, postId, bookmark))

----------------------------------------------------------------------------
(* User methods *)

\* bcrypt.hash and bcrypt.compare: the hash is not the password, and
\* compares equal to the password it was made from only
hash(password) == [bcrypt |-> password]
compare(password, hashed) == hashed = [bcrypt |-> password]

\* the index in values(users) of the first user with the email, 0 for none
getUserByEmail(email) == FindIndex(values(users), LAMBDA user : user.email = email)
getUserByUsername(username) ==
  FindIndex(values(users), LAMBDA user : user.username = username)

\* createUser once the hash is there: storage.ts lines 111-121
createUser(userData) ==
  /\ currentId.users <= MaxUsers
  /\ LET id == currentId.users
         user == Spread(userData,
                        [id |-> id, password |-> hash(userData.password), createdAt |-> now])
     IN /\ users' = MapSet(users, id, user)
        /\ currentId' = [currentId EXCEPT !.users = id + 1]
        /\ ret' = [op |-> "createUser", args |-> <<userData>>, val |-> user]
  /\ UNCHANGED <<posts, likes, comments, bookmarks, follows, messages, postCreator>>

isUserFollowing(followerId, followingId) ==
  some(values(follows),
       LAMBDA follow : follow.followerId = followerId /\ follow.followingId = followingId)

getFollowerCount(userId) ==
  Len(filter(values(follows), LAMBDA follow : follow.followingId = userId))

getFollowingCount(userId) ==
  Len(filter(values(follows), LAMBDA follow : follow.followerId = userId))

\* a result that may be undefined is a sequence of at most one element
getUserProfile(userId, currentUserId) ==
  IF userId \notin DOMAIN users THEN <<>>
  ELSE <<Spread(users[userId],
                [postCount |-> Len(filter(values(posts), LAMBDA post : post.authorId = userId)),
                 followerCount |-> getFollowerCount(userId),
                 followingCount |-> getFollowingCount(userId),
                 isFollowing |-> IF Truthy(currentUserId)
                                 THEN isUserFollowing(currentUserId, userId)
                                 ELSE FALSE])>>

\* the author summary of an enriched post, comment or message
authorSummary(userId) ==
  IF userId \in DOMAIN users
  THEN [id |-> users[userId].id, username |-> users[userId].username]
  ELSE [id |-> 0, username |-> 0]

----------------------------------------------------------------------------
(* Comment methods *)

createComment(commentData) ==
  /\ currentId.comments <= MaxComments
  /\ LET id == currentId.comments
         comment == Spread(commentData, [id |-> id, createdAt |-> now])
     IN /\ comments' = MapSet(comments, id, comment)
        /\ currentId' = [currentId EXCEPT !.comments = id + 1]
        /\ ret' = [op |-> "createComment", args |-> <<commentData>>, val |-> comment]
  /\ UNCHANGED <<users, posts, likes, bookmarks, follows, messages, postCreator>>

\* a deleteComment that does not compare the author
deleteComment_AnyUser(id, userId) ==
  /\ IF id \notin DOMAIN comments
     THEN /\ ret' = [op |-> "deleteComment", args |-> <<id, userId>>, val |-> FALSE]
          /\ UNCHANGED comments
     ELSE /\ comments' = MapDelete(comments, id)
          /\ ret' = [op |-> "deleteComment", args |-> <<id, userId>>, val |-> TRUE]
  /\ UNCHANGED <<users, posts, likes, bookmarks, follows, messages, currentId, postCreator>>

deleteComment(id, userId) ==
  /\ IF id \notin DOMAIN comments \/ comments[id].userId # userId
     THEN /\ ret' = [op |-> "deleteComment", args |-> <<id, userId>>, val |-> FALSE]
          /\ UNCHANGED comments
     ELSE /\ comments' = MapDelete(comments, id)
          /\ ret' = [op |-> "deleteComment", args |-> <<id, userId>>, val |-> TRUE]
  /\ UNCHANGED <<users, posts, likes, bookmarks, follows, messages, currentId, postCreator>>

getCommentCount(postId) ==
  Len(filter(values(comments), LAMBDA comment : comment.postId = postId))

getComments(postId) ==
  map(SortAscBy(filter(values(comments), LAMBDA comment : comment.postId = postId),
                createdAtOf),
      LAMBDA comment : Spread(comment, [author |-> authorSummary(comment.userId)]))

----------------------------------------------------------------------------
(* Post methods *)

\* an enrichment whose isLiked is set by anybody's like
enrichPostWithAuthor_AnyLike(post, userId) ==
  Spread(post,
         [author |-> authorSummary(post.authorId),
          likeCount |-> getPostLikeCount(post.id),
          commentCount |-> getCommentCount(post.id),
          isLiked |-> getPostLikeCount(post.id) > 0,
          isBookmarked |-> IF Truthy(userId) THEN isPostBookmarked(userId, post.id) ELSE FALSE])

enrichPostWithAuthor(post, userId) ==
  Spread(post,
         [author |-> authorSummary(post.authorId),
          likeCount |-> getPostLikeCount(post.id),
          commentCount |-> getCommentCount(post.id),
          isLiked |-> IF Truthy(userId) THEN isPostLiked(userId, post.id) ELSE FALSE,
          isBookmarked |-> IF Truthy(userId) THEN isPostBookmarked(userId, post.id) ELSE FALSE])

enrichAll(ps, userId) == map(ps, LAMBDA post : enrichPostWithAuthor(post, userId))

\* a getPosts that always starts at the newest post
getPosts_NoOffset(limit, offset, userId) ==
  enrichAll(slice(SortDescBy(filter(values(posts), LAMBDA post : post.published),
                             createdAtOf),
                  0, limit),
            userId)

getPosts(limit, offset, userId) ==
  enrichAll(slice(SortDescBy(filter(values(posts), LAMBDA post : post.published),
                             createdAtOf),
                  offset, offset + limit),
            userId)

getPost(id, userId) ==
  IF id \notin DOMAIN posts \/ ~posts[id].published THEN <<>>
  ELSE <<enrichPostWithAuthor(posts[id], userId)>>

getPostsByAuthor(authorId, userId) ==
  enrichAll(SortDescBy(filter(values(posts),
                              LAMBDA post : post.authorId = authorId /\ post.published),
                       createdAtOf),
            userId)

\* post.tags?.includes(tag)
hasTag(post, tag) == "tags" \in DOMAIN post /\ arrayIncludes(post.tags, tag)

getPostsByTag(tag, userId) ==
  enrichAll(SortDescBy(filter(values(posts), LAMBDA post : post.published /\ hasTag(post, tag)),
                       createdAtOf),
            userId)

\* a filter of searchPosts that looks at the title only
matchesQuery_TitleOnly(post, lowerQuery) == includes(toLowerCase(post.title), lowerQuery)

matchesQuery(post, lowerQuery) ==
  \/ includes(toLowerCase(post.title), lowerQuery)
  \/ includes(toLowerCase(post.content), lowerQuery)
  \/ /\ "tags" \in DOMAIN post
     /\ some(post.tags, LAMBDA tag : includes(toLowerCase(tag), lowerQuery))

searchPosts(query, userId) ==
  enrichAll(SortDescBy(filter(values(posts),
                              LAMBDA post : post.published
                                            /\ matchesQuery(post, toLowerCase(query))),
                       createdAtOf),
            userId)

\* a createPost that numbers the post by the size of the map
createPost_SizeId(postData) ==
  /\ currentId.posts <= MaxPosts
  /\ LET id == Cardinality(DOMAIN posts) + 1
         base == [title |-> postData.title, content |-> postData.content,
                  authorId |-> postData.authorId, id |-> id,
                  published |-> IF "published" \in DOMAIN postData
                                THEN postData.published ELSE TRUE,
                  createdAt |-> now, updatedAt |-> now]
         post == IF "tags" \in DOMAIN postData
                 THEN Spread(base, [tags |-> postData.tags]) ELSE base
     IN /\ posts' = MapSet(posts, id, post)
        /\ postCreator' = MapSet(postCreator, id, postData.authorId)
        /\ currentId' = [currentId EXCEPT !.posts = currentId.posts + 1]
        /\ ret' = [op |-> "createPost", args |-> <<postData>>, val |-> post]
  /\ UNCHANGED <<users, likes, comments, bookmarks, follows, messages>>

createPost(postData) ==
  /\ currentId.posts <= MaxPosts
  /\ LET id == currentId.posts
         base == [title |-> postData.title, content |-> postData.content,
                  authorId |-> postData.authorId, id |-> id,
                  published |-> IF "published" \in DOMAIN postData
                                THEN postData.published ELSE TRUE,
                  createdAt |-> now, updatedAt |-> now]
         \* tags: postData.tags || null
         post == IF "tags" \in DOMAIN postData
                 THEN Spread(base, [tags |-> postData.tags]) ELSE base
     IN /\ posts' = MapSet(posts, id, post)
        /\ postCreator' = MapSet(postCreator, id, postData.authorId)
        /\ currentId' = [currentId EXCEPT !.posts = id + 1]
        /\ ret' = [op |-> "createPost", args |-> <<postData>>, val |-> post]
  /\ UNCHANGED <<users, likes, comments, bookmarks, follows, messages>>

updatePost(id, postData) ==
  /\ IF id \notin DOMAIN posts
     THEN /\ ret' = [op |-> "updatePost", args |-> <<id, postData>>, val |-> <<>>]
          /\ UNCHANGED posts
     ELSE LET updatedPost == Spread(Spread(posts[id], postData), [updatedAt |-> now])
          IN /\ posts' = MapSet(posts, id, updatedPost)
             /\ ret' = [op |-> "updatePost", args |-> <<id, postData>>, val |-> <<updatedPost>>]
  /\ UNCHANGED <<users, likes, comments, bookmarks, follows, messages, currentId, postCreator>>

\* a deletePost that takes the likes, comments and bookmarks of the post along
deletePost_Cascade(id, authorId) ==
  /\ IF id \notin DOMAIN posts \/ posts[id].authorId # authorId
     THEN /\ ret' = [op |-> "deletePost", args |-> <<id, authorId>>, val |-> FALSE]
          /\ UNCHANGED <<posts, likes, comments, bookmarks>>
     ELSE /\ posts' = MapDelete(posts, id)
          /\ likes' = [k \in {j \in DOMAIN likes : likes[j].postId # id} |-> likes[k]]
          /\ comments' = [k \in {j \in DOMAIN comments : comments[j].postId # id} |-> comments[k]]
          /\ bookmarks' = [k \in {j \in DOMAIN bookmarks : bookmarks[j].postId # id} |-> bookmarks[k]]
          /\ ret' = [op |-> "deletePost", args |-> <<id, authorId>>, val |-> TRUE]
  /\ UNCHANGED <<users, follows, messages, currentId, postCreator>>

\* a deletePost that does not compare the author
deletePost_AnyUser(id, authorId) ==
  /\ IF id \notin DOMAIN posts
     THEN /\ ret' = [op |-> "deletePost", args |-> <<id, authorId>>, val |-> FALSE]
          /\ UNCHANGED posts
     ELSE /\ posts' = MapDelete(posts, id)
          /\ ret' = [op |-> "deletePost", args |-> <<id, authorId>>, val |-> TRUE]
  /\ UNCHANGED <<users, likes, comments, bookmarks, follows, messages, currentId, postCreator>>

deletePost(id, authorId) ==
  /\ IF id \notin DOMAIN posts \/ posts[id].authorId # authorId
     THEN /\ ret' = [op |-> "deletePost", args |-> <<id, authorId>>, val |-> FALSE]
          /\ UNCHANGED posts
     ELSE /\ posts' = MapDelete(posts, id)
          /\ ret' = [op |-> "deletePost", args |-> <<id, authorId>>, val |-> TRUE]
  /\ UNCHANGED <<users, likes, comments, bookmarks, follows, messages, currentId, postCreator>>

getUserBookmarks(userId) ==
  LET userBookmarks ==
        SortDescBy(filter(values(bookmarks), LAMBDA bookmark : bookmark.userId = userId),
                   createdAtOf)
      stored == filter(userBookmarks, LAMBDA bookmark : bookmark.postId \in DOMAIN posts)
  IN enrichAll(map(stored, LAMBDA bookmark : posts[bookmark.postId]), userId)

----------------------------------------------------------------------------
(* Follow methods *)

sameFollow(followerId, followingId, r) ==
  r.followerId = followerId /\ r.followingId = followingId

\* the insert of followUser
insertFollow(followerId, followingId) ==
  /\ currentId.follows <= MaxFollows
  /\ LET id == currentId.follows
         follow == [id |-> id, followerId |-> followerId,
                    followingId |-> followingId, createdAt |-> now]
     IN /\ follows' = MapSet(follows, id, follow)
        /\ currentId' = [currentId EXCEPT !.follows = id + 1]
        /\ ret' = [op |-> "followUser", args |-> <<followerId, followingId>>, val |-> follow]

\* a followUser that skips the lookup before the insert
followUser_NoLookup(followerId, followingId) ==
  /\ IF followerId = followingId
     THEN /\ ret' = [op |-> "followUser", args |-> <<followerId, followingId>>,
                     error |-> "Cannot follow yourself"]
          /\ UNCHANGED <<follows, currentId>>
     ELSE insertFollow(followerId, followingId)
  /\ UNCHANGED <<users, posts, likes, comments, bookmarks, messages, postCreator>>

\* a followUser that does not refuse to follow oneself
followUser_NoSelfCheck(followerId, followingId) ==
  /\ LET all == values(follows)
         existing == FindIndex(all, LAMBDA follow : sameFollow(followerId, followingId, follow))
     IN IF existing # 0
        THEN /\ ret' = [op |-> "followUser", args |-> <<followerId, followingId>>,
                        val |-> all[existing]]
             /\ UNCHANGED <<follows, currentId>>
        ELSE insertFollow(followerId, followingId)
  /\ UNCHANGED <<users, posts, likes, comments, bookmarks, messages, postCreator>>

followUser(followerId, followingId) ==
  /\ IF followerId = followingId
     THEN \* throw new Error("Cannot follow yourself")
          /\ ret' = [op |-> "followUser", args |-> <<followerId, followingId>>,
                     error |-> "Cannot follow yourself"]
          /\ UNCHANGED <<follows, currentId>>
     ELSE LET all == values(follows)
              existing == FindIndex(all, LAMBDA follow : sameFollow(followerId, followingId, follow))
          IN IF existing # 0
             THEN /\ ret' = [op |-> "followUser", args |-> <<followerId, followingId>>,
                             val |-> all[existing]]
                  /\ UNCHANGED <<follows, currentId>>
             ELSE insertFollow(followerId, followingId)
  /\ UNCHANGED <<users, posts, likes, comments, bookmarks, messages, postCreator>>

\* an unfollowUser that ends the follow in both directions
unfollowUser_Both(followerId, followingId) ==
  LET gone == {k \in DOMAIN follows :
                 \/ sameFollow(followerId, followingId, follows[k])
                 \/ sameFollow(followingId, followerId, follows[k])}
  IN /\ follows' = [k \in DOMAIN follows \ gone |-> follows[k]]
     /\ ret' = [op |-> "unfollowUser", args |-> <<followerId, followingId>>,
                val |-> \E k \in DOMAIN follows : sameFollow(followerId, followingId, follows[k])]
     /\ UNCHANGED <<users, posts, likes, comments, bookmarks, messages, currentId, postCreator>>

unfollowUser(followerId, followingId) ==
  LET ks == keys(follows)
      follow == FindIndex(ks, LAMBDA k : sameFollow(followerId, followingId, follows[k]))
  IN /\ IF follow = 0
        THEN /\ ret' = [op |-> "unfollowUser", args |-> <<followerId, followingId>>, val |-> FALSE]
             /\ UNCHANGED follows
        ELSE /\ follows' = MapDelete(follows, ks[follow])
             /\ ret' = [op |-> "unfollowUser", args |-> <<followerId, followingId>>, val |-> TRUE]
     /\ UNCHANGED <<users, posts, likes, comments, bookmarks, messages, currentId, postCreator>>

\* getUserProfile of the first `limit` users other than userId
getSuggestedAuthors(userId, limit) ==
  map(slice(filter(values(users), LAMBDA user : user.id # userId), 0, limit),
      LAMBDA user : getUserProfile(user.id, userId)[1])

----------------------------------------------------------------------------
(* Message methods *)

sendMessage(messageData) ==
  /\ currentId.messages <= MaxMessages
  /\ LET id == currentId.messages
         message == [id |-> id, senderId |-> messageData.senderId,
                     receiverId |-> messageData.receiverId,
                     content |-> messageData.content,
                     isRead |-> IF "isRead" \in DOMAIN messageData
                                THEN messageData.isRead ELSE FALSE,
                     createdAt |-> now]
     IN /\ messages' = MapSet(messages, id, message)
        /\ currentId' = [currentId EXCEPT !.messages = id + 1]
        /\ ret' = [op |-> "sendMessage", args |-> <<messageData>>, val |-> message]
  /\ UNCHANGED <<users, posts, likes, comments, bookmarks, follows, postCreator>>

\* the unread messages otherUserId sent to userId
isUnreadFrom(msg, otherUserId, userId) ==
  msg.senderId = otherUserId /\ msg.receiverId = userId /\ ~msg.isRead

getConversations(userId) ==
  LET userMessages ==
        SortDescBy(filter(values(messages),
                          LAMBDA msg : msg.senderId = userId \/ msg.receiverId = userId),
                   createdAtOf)
      other(message) ==
        IF message.senderId = userId THEN message.receiverId ELSE message.senderId
      \* the messages that find no entry for their other party in conversationMap
      firsts ==
        SelectSeq([i \in 1..Len(userMessages) |-> i],
                  LAMBDA i : \A j \in 1..(i - 1) : other(userMessages[j]) # other(userMessages[i]))
      entry(i) ==
        [otherUserId |-> other(userMessages[i]),
         lastMessage |-> userMessages[i],
         unreadCount |->
           Len(filter(values(messages),
                      LAMBDA msg : isUnreadFrom(msg, other(userMessages[i]), userId)))]
      conversationMap == map(firsts, entry)
      conversations ==
        map(filter(conversationMap, LAMBDA e : e.otherUserId \in DOMAIN users),
            LAMBDA e : [participant |-> authorSummary(e.otherUserId),
                        lastMessage |-> e.lastMessage,
                        unreadCount |-> e.unreadCount])
  IN SortDescBy(conversations, LAMBDA c : c.lastMessage.createdAt)

\* Array.prototype.slice(start) for any integer start
sliceFrom(s, start) ==
  LET from == IF start < 0
              THEN (IF Len(s) + start < 0 THEN 0 ELSE Len(s) + start)
              ELSE (IF start > Len(s) THEN Len(s) ELSE start)
  IN IF from >= Len(s) THEN <<>> ELSE SubSeq(s, from + 1, Len(s))

getMessages(userId, otherUserId, limit) ==
  map(sliceFrom(SortAscBy(filter(values(messages),
                                 LAMBDA msg :
                                   \/ msg.senderId = userId /\ msg.receiverId = otherUserId
                                   \/ msg.senderId = otherUserId /\ msg.receiverId = userId),
                          createdAtOf),
                0 - limit),
      LAMBDA message : Spread(message, [sender |-> authorSummary(message.senderId)]))

\* a markMessagesAsRead that reports success whether it marked a message or not
markMessagesAsRead_AlwaysTrue(userId, otherUserId) ==
  LET messagesToMark == {id \in DOMAIN messages : isUnreadFrom(messages[id], otherUserId, userId)}
  IN /\ messages' = [id \in DOMAIN messages |->
                       IF id \in messagesToMark
                       THEN Spread(messages[id], [isRead |-> TRUE]) ELSE messages[id]]
     /\ ret' = [op |-> "markMessagesAsRead", args |-> <<userId, otherUserId>>, val |-> TRUE]
     /\ UNCHANGED <<users, posts, likes, comments, bookmarks, follows, currentId, postCreator>>

\* a markMessagesAsRead that marks whatever the user received, whoever sent it
markMessagesAsRead_AnySender(userId, otherUserId) ==
  LET messagesToMark ==
        {id \in DOMAIN messages : messages[id].receiverId = userId /\ ~messages[id].isRead}
  IN /\ messages' = [id \in DOMAIN messages |->
                       IF id \in messagesToMark
                       THEN Spread(messages[id], [isRead |-> TRUE]) ELSE messages[id]]
     /\ ret' = [op |-> "markMessagesAsRead", args |-> <<userId, otherUserId>>,
                val |-> Cardinality(messagesToMark) > 0]
     /\ UNCHANGED <<users, posts, likes, comments, bookmarks, follows, currentId, postCreator>>

\* a markMessagesAsRead that marks what the user sent instead of what they received
markMessagesAsRead_Sent(userId, otherUserId) ==
  LET messagesToMark == {id \in DOMAIN messages : isUnreadFrom(messages[id], userId, otherUserId)}
  IN /\ messages' = [id \in DOMAIN messages |->
                       IF id \in messagesToMark
                       THEN Spread(messages[id], [isRead |-> TRUE]) ELSE messages[id]]
     /\ ret' = [op |-> "markMessagesAsRead", args |-> <<userId, otherUserId>>,
                val |-> Cardinality(messagesToMark) > 0]
     /\ UNCHANGED <<users, posts, likes, comments, bookmarks, follows, currentId, postCreator>>

markMessagesAsRead(userId, otherUserId) ==
  LET messagesToMark == {id \in DOMAIN messages : isUnreadFrom(messages[id], otherUserId, userId)}
  IN /\ messages' = [id \in DOMAIN messages |->
                       IF id \in messagesToMark
                       THEN Spread(messages[id], [isRead |-> TRUE]) ELSE messages[id]]
     /\ ret' = [op |-> "markMessagesAsRead", args |-> <<userId, otherUserId>>,
                val |-> Cardinality(messagesToMark) > 0]
     /\ UNCHANGED <<users, posts, likes, comments, bookmarks, follows, currentId, postCreator>>

getUnreadMessageCount(userId) ==
  Len(filter(values(messages), LAMBDA msg : msg.receiverId = userId /\ ~msg.isRead))

----------------------------------------------------------------------------
(* The store called directly: one action per method.  A read leaves the    *)
(* store as it is and hands its result to the caller.                      *)

returns(op, args, val) ==
  /\ ret' = [op |-> op, args |-> args, val |-> val]
  /\ UNCHANGED <<users, posts, likes, comments, bookmarks, follows, messages,
                 currentId, postCreator>>

\* new Date() between two calls: the clock may have moved on, or not
Tick == now < MaxTime /\ now' = now + 1 /\ UNCHANGED <<store, ret, postCreator, http>>

CreateUser(D) == \E d \in D : createUser(d) /\ UNCHANGED <<now, http>>

LikePost(U) == \E u \in U, p \in PostIds : likePost(u, p) /\ UNCHANGED <<now, http>>
UnlikePost(U) == \E u \in U, p \in PostIds : unlikePost(u, p) /\ UNCHANGED <<now, http>>
BookmarkPost(U) == \E u \in U, p \in PostIds : bookmarkPost(u, p) /\ UNCHANGED <<now, http>>
UnbookmarkPost(U) == \E u \in U, p \in PostIds : unbookmarkPost(u, p) /\ UNCHANGED <<now, http>>

CreateComment(U) ==
  \E d \in CommentData : d.userId \in U /\ createComment(d) /\ UNCHANGED <<now, http>>
DeleteComment(U) ==
  \E id \in 1..MaxComments, u \in U : deleteComment(id, u) /\ UNCHANGED <<now, http>>

CreatePost(D) == \E d \in D : createPost(d) /\ UNCHANGED <<now, http>>
UpdatePost == \E id \in PostIds, d \in PostPatch : updatePost(id, d) /\ UNCHANGED <<now, http>>
DeletePost == \E id \in PostIds, a \in UserIds : deletePost(id, a) /\ UNCHANGED <<now, http>>

FollowUser == \E a \in UserIds, b \in UserIds : followUser(a, b) /\ UNCHANGED <<now, http>>
UnfollowUser == \E a \in UserIds, b \in UserIds : unfollowUser(a, b) /\ UNCHANGED <<now, http>>

SendMessage == \E d \in MessageData : sendMessage(d) /\ UNCHANGED <<now, http>>
\* sendMessage by callers that name stored users only
SendMessageToUser ==
  \E d \in MessageData :
    /\ d.senderId \in DOMAIN users
    /\ d.receiverId \in DOMAIN users
    /\ sendMessage(d)
    /\ UNCHANGED <<now, http>>
MarkMessagesAsRead ==
  \E u \in UserIds, o \in UserIds : markMessagesAsRead(u, o) /\ UNCHANGED <<now, http>>

\* getPosts(limit = 10, offset = 0, userId?)
GetPosts(V) ==
  \E v \in V :
    returns("getPosts", <<10, 0, v>>, getPosts(10, 0, v)) /\ UNCHANGED <<now, http>>
GetPost(V) ==
  \E id \in PostIds, v \in V :
    returns("getPost", <<id, v>>, getPost(id, v)) /\ UNCHANGED <<now, http>>
GetPostsByAuthor(V) ==
  \E a \in UserIds, v \in V :
    returns("getPostsByAuthor", <<a, v>>, getPostsByAuthor(a, v)) /\ UNCHANGED <<now, http>>
GetPostsByTag(V) ==
  \E v \in V :
    returns("getPostsByTag", <<intro, v>>, getPostsByTag(intro, v)) /\ UNCHANGED <<now, http>>
SearchPosts(V) ==
  \E q \in {<<"w", "o", "r">>, <<"H", "E">>}, v \in V :
    returns("searchPosts", <<q, v>>, searchPosts(q, v)) /\ UNCHANGED <<now, http>>
\* search texts: in every text of the scenario, in Hello only and in another
\* case, in the tag only and in another case, in no text, and the empty text
Queries == {<<"o">>, <<"H", "E">>, <<"N", "t">>, <<"x">>, <<>>}
SearchPostsFor(Q) ==
  \E q \in Q :
    returns("searchPosts", <<q, undefined>>, searchPosts(q, undefined))
    /\ UNCHANGED <<now, http>>
\* getPosts with a limit and an offset
GetPostsPage ==
  \E limit \in 1..MaxPosts, offset \in 0..MaxPosts :
    returns("getPosts", <<limit, offset, undefined>>, getPosts(limit, offset, undefined))
    /\ UNCHANGED <<now, http>>
GetUserBookmarks ==
  \E u \in UserIds :
    returns("getUserBookmarks", <<u>>, getUserBookmarks(u)) /\ UNCHANGED <<now, http>>
GetUserProfile(V) ==
  \E u \in UserIds, v \in V :
    returns("getUserProfile", <<u, v>>, getUserProfile(u, v)) /\ UNCHANGED <<now, http>>
GetConversations ==
  \E u \in UserIds :
    returns("getConversations", <<u>>, getConversations(u)) /\ UNCHANGED <<now, http>>
\* getMessages with a limit from none of the messages to all of them
GetMessages ==
  \E u \in UserIds, o \in UserIds, limit \in 0..MaxMessages :
    returns("getMessages", <<u, o, limit>>, getMessages(u, o, limit)) /\ UNCHANGED <<now, http>>
GetUnreadMessageCount ==
  \E u \in UserIds :
    returns("getUnreadMessageCount", <<u>>, getUnreadMessageCount(u)) /\ UNCHANGED <<now, http>>

----------------------------------------------------------------------------
(* The HTTP handlers of routes.ts.  session[c] is req.session.userId of    *)
(* client c's session; inflight holds the registrations whose password is  *)
(* being hashed; resp is the response last sent.                           *)

respond(route, status, body) == resp' = [route |-> route, status |-> status, body |-> body]

\* a handler that answers without calling the store
answers(route, status, body) ==
  /\ respond(route, status, body)
  /\ UNCHANGED <<store, ret, postCreator, now, session, inflight>>

\* requireAuth
authenticated(c) == Truthy(session[c])
requireAuth(c, route) ==
  /\ ~authenticated(c)
  /\ answers(route, 401, [message |-> "Authentication required"])

\* POST /api/auth/register up to the await of bcrypt.hash in createUser
POST_api_auth_register(c, data) ==
  IF getUserByEmail(data.email) # 0
  THEN answers("POST /api/auth/register", 400,
               [message |-> "User already exists with this email"])
  ELSE IF getUserByUsername(data.username) # 0
  THEN answers("POST /api/auth/register", 400, [message |-> "Username already taken"])
  ELSE /\ currentId.users + Cardinality(inflight) <= MaxUsers
       /\ [client |-> c, data |-> data] \notin inflight
       /\ inflight' = inflight \cup {[client |-> c, data |-> data]}
       /\ UNCHANGED <<store, ret, postCreator, now, session, resp>>

\* POST /api/auth/register once the hash is there
POST_api_auth_register_hashed(r) ==
  /\ createUser(r.data)
  /\ inflight' = inflight \ {r}
  /\ session' = [session EXCEPT ![r.client] = ret'.val.id]
  /\ respond("POST /api/auth/register", 201, [user |-> Without(ret'.val, "password")])
  /\ UNCHANGED now

\* the user is read before the await of bcrypt.compare and users are never
\* changed or removed, so the handler acts as one step
POST_api_auth_login(c, data) ==
  LET found == getUserByEmail(data.email)
      user == values(users)[found]
  IN IF found = 0 \/ ~compare(data.password, user.password)
     THEN answers("POST /api/auth/login", 401, [message |-> "Invalid credentials"])
     ELSE /\ session' = [session EXCEPT ![c] = user.id]
          /\ respond("POST /api/auth/login", 200, [user |-> Without(user, "password")])
          /\ UNCHANGED <<store, ret, postCreator, now, inflight>>

\* req.session.destroy
POST_api_auth_logout(c) ==
  /\ session' = [session EXCEPT ![c] = undefined]
  /\ respond("POST /api/auth/logout", 200, [message |-> "Logged out successfully"])
  /\ UNCHANGED <<store, ret, postCreator, now, inflight>>

GET_api_auth_me(c) ==
  IF ~authenticated(c)
  THEN answers("GET /api/auth/me", 401, [message |-> "Not authenticated"])
  ELSE IF session[c] \notin DOMAIN users
  THEN answers("GET /api/auth/me", 404, [message |-> "User not found"])
  ELSE answers("GET /api/auth/me", 200, [user |-> Without(users[session[c]], "password")])

GET_api_users_id(c, id) ==
  LET profile == getUserProfile(id, session[c])
  IN IF profile = <<>>
     THEN answers("GET /api/users/:id", 404, [message |-> "User not found"])
     ELSE answers("GET /api/users/:id", 200, [user |-> Without(profile[1], "password")])

GET_api_suggested_authors(c, limit) ==
  \/ requireAuth(c, "GET /api/suggested/authors")
  \/ /\ authenticated(c)
     /\ answers("GET /api/suggested/authors", 200,
                [authors |-> getSuggestedAuthors(session[c], limit)])

POST_api_users_id_follow(c, followingId) ==
  \/ requireAuth(c, "POST /api/users/:id/follow")
  \/ /\ authenticated(c)
     /\ followUser(session[c], followingId)
     /\ IF "error" \in DOMAIN ret'
        THEN IF ret'.error = "Cannot follow yourself"
             THEN respond("POST /api/users/:id/follow", 400, [message |-> ret'.error])
             ELSE respond("POST /api/users/:id/follow", 500,
                          [message |-> "Internal server error"])
        ELSE respond("POST /api/users/:id/follow", 200, [follow |-> ret'.val])
     /\ UNCHANGED <<now, session, inflight>>

\* a delete route that tells a refusal from a missing post
\* likePost and bookmarkPost hold no await, so the store call of the handler
\* is one step; the response is made of the value it returned
POST_api_posts_id_like(c, postId) ==
  \/ requireAuth(c, "POST /api/posts/:id/like")
  \/ /\ authenticated(c)
     /\ likePost(session[c], postId)
     /\ respond("POST /api/posts/:id/like", 200, [like |-> ret'.val])
     /\ UNCHANGED <<now, session, inflight>>

POST_api_posts_id_bookmark(c, postId) ==
  \/ requireAuth(c, "POST /api/posts/:id/bookmark")
  \/ /\ authenticated(c)
     /\ bookmarkPost(session[c], postId)
     /\ respond("POST /api/posts/:id/bookmark", 200, [bookmark |-> ret'.val])
     /\ UNCHANGED <<now, session, inflight>>

DELETE_api_posts_id_Forbidden(c, id) ==
  \/ requireAuth(c, "DELETE /api/posts/:id")
  \/ /\ authenticated(c)
     /\ deletePost(id, session[c])
     /\ IF ~ret'.val
        THEN IF id \in DOMAIN posts
             THEN respond("DELETE /api/posts/:id", 403, [message |-> "Not authorized"])
             ELSE respond("DELETE /api/posts/:id", 404,
                          [message |-> "Post not found or not authorized"])
        ELSE respond("DELETE /api/posts/:id", 200, [message |-> "Post deleted successfully"])
     /\ UNCHANGED <<now, session, inflight>>

DELETE_api_posts_id(c, id) ==
  \/ requireAuth(c, "DELETE /api/posts/:id")
  \/ /\ authenticated(c)
     /\ deletePost(id, session[c])
     /\ IF ~ret'.val
        THEN respond("DELETE /api/posts/:id", 404,
                     [message |-> "Post not found or not authorized"])
        ELSE respond("DELETE /api/posts/:id", 200, [message |-> "Post deleted successfully"])
     /\ UNCHANGED <<now, session, inflight>>

\* parseInt of a query parameter: the number its leading decimal digits
\* spell, NaN when there is none or when the parameter is absent (signs and
\* leading blanks are not modelled)
NaN == -2
digit(c) ==
  CASE c = "0" -> 0 [] c = "1" -> 1 [] c = "2" -> 2 [] c = "3" -> 3 [] c = "4" -> 4
    [] c = "5" -> 5 [] c = "6" -> 6 [] c = "7" -> 7 [] c = "8" -> 8 [] c = "9" -> 9
    [] OTHER -> NaN
RECURSIVE digitsValue(_, _)
digitsValue(str, k) == IF k = 0 THEN 0 ELSE 10 * digitsValue(str, k - 1) + digit(str[k])
parseInt(str) ==
  LET n == Max({k \in 0..Len(str) : \A i \in 1..k : digit(str[i]) # NaN})
  IN IF n = 0 THEN NaN ELSE digitsValue(str, n)
parseIntParam(query, name) == IF name \in DOMAIN query THEN parseInt(query[name]) ELSE NaN

\* x || d for a number, and the truthiness of a string parameter
orDefault(x, d) == IF x = NaN \/ x = 0 THEN d ELSE x
truthyParam(query, name) == name \in DOMAIN query /\ query[name] # <<>>

\* req.query of GET /api/posts: each parameter is there or not; a text
\* parameter may be the empty string, authorId may be 0 or no number
PostsQuery ==
  {[k \in D |-> full[k]] :
     full \in [search : {<<>>, <<"N", "t">>}, tag : {<<>>, intro},
               authorId : {<<"0">>, <<"1">>, <<"x">>},
               limit : {<<"1">>}, offset : {<<"1">>}],
     D \in {F \cup P : F \in SUBSET {"search", "tag", "authorId"},
                         P \in {{}, {"limit", "offset"}}}}

\* GET /api/posts; the response is kept with the query it answers
GET_api_posts(c, query) ==
  LET limit == orDefault(parseIntParam(query, "limit"), 10)
      offset == orDefault(parseIntParam(query, "offset"), 0)
      authorId == parseIntParam(query, "authorId")
      userId == session[c]
      call ==
        IF truthyParam(query, "search")
        THEN [op |-> "searchPosts", args |-> <<query.search, userId>>,
              val |-> searchPosts(query.search, userId)]
        ELSE IF truthyParam(query, "tag")
        THEN [op |-> "getPostsByTag", args |-> <<query.tag, userId>>,
              val |-> getPostsByTag(query.tag, userId)]
        ELSE IF orDefault(authorId, 0) # 0
        THEN [op |-> "getPostsByAuthor", args |-> <<authorId, userId>>,
              val |-> getPostsByAuthor(authorId, userId)]
        ELSE [op |-> "getPosts", args |-> <<limit, offset, userId>>,
              val |-> getPosts(limit, offset, userId)]
  IN /\ ret' = call
     /\ resp' = [route |-> "GET /api/posts", status |-> 200,
                 body |-> [posts |-> call.val], query |-> query]
     /\ UNCHANGED <<store, postCreator, now, session, inflight>>

\* POST /api/posts: the author is the session's user, whatever the body says
POST_api_posts(c, body) ==
  \/ requireAuth(c, "POST /api/posts")
  \/ /\ authenticated(c)
     /\ createPost(Spread(body, [authorId |-> session[c]]))
     /\ respond("POST /api/posts", 201, [post |-> ret'.val])
     /\ UNCHANGED <<now, session, inflight>>

\* PUT /api/posts/:id: the post is looked up with getPost, without a viewer,
\* and the body is handed to updatePost as it was parsed
PUT_api_posts_id(c, id, body) ==
  \/ requireAuth(c, "PUT /api/posts/:id")
  \/ /\ authenticated(c)
     /\ LET existingPost == getPost(id, undefined)
        IN IF existingPost = <<>> \/ existingPost[1].author.id # session[c]
           THEN /\ respond("PUT /api/posts/:id", 404,
                           [message |-> "Post not found or not authorized"])
                /\ ret' = [op |-> "getPost", args |-> <<id>>, val |-> existingPost]
                /\ UNCHANGED <<store, postCreator>>
           ELSE /\ updatePost(id, body)
                /\ respond("PUT /api/posts/:id", 200, [post |-> ret'.val])
     /\ UNCHANGED <<now, session, inflight>>

\* a POST /api/messages that lets the body name the sender
POST_api_messages_BodySender(c, body) ==
  \/ requireAuth(c, "POST /api/messages")
  \/ /\ authenticated(c)
     /\ sendMessage(Spread([senderId |-> session[c]], body))
     /\ respond("POST /api/messages", 201, [message |-> ret'.val])
     /\ UNCHANGED <<now, session, inflight>>

\* POST /api/messages: the sender is the session's user, whatever the body says
POST_api_messages(c, body) ==
  \/ requireAuth(c, "POST /api/messages")
  \/ /\ authenticated(c)
     /\ sendMessage(Spread(body, [senderId |-> session[c]]))
     /\ respond("POST /api/messages", 201, [message |-> ret'.val])
     /\ UNCHANGED <<now, session, inflight>>

POST_api_messages_userId_read(c, otherUserId) ==
  \/ requireAuth(c, "POST /api/messages/:userId/read")
  \/ /\ authenticated(c)
     /\ markMessagesAsRead(session[c], otherUserId)
     /\ respond("POST /api/messages/:userId/read", 200, [success |-> ret'.val])
     /\ UNCHANGED <<now, session, inflight>>

\* the GET handlers below /api/messages/; a response carries the last path
\* segment of its request and the client that sent it
answersGet(c, segment, route, status, body) ==
  /\ resp' = [route |-> route, status |-> status, body |-> body,
              segment |-> segment, client |-> c]
  /\ UNCHANGED <<store, ret, postCreator, now, session, inflight>>

GET_api_messages_conversations(c, segment, query) ==
  IF ~authenticated(c)
  THEN answersGet(c, segment, "GET /api/messages/conversations", 401,
                  [message |-> "Authentication required"])
  ELSE answersGet(c, segment, "GET /api/messages/conversations", 200,
                  [conversations |-> getConversations(session[c])])

GET_api_messages_userId(c, segment, query) ==
  IF ~authenticated(c)
  THEN answersGet(c, segment, "GET /api/messages/:userId", 401,
                  [message |-> "Authentication required"])
  ELSE LET otherUserId == parseInt(segment)
           limit == orDefault(parseIntParam(query, "limit"), 50)
       IN answersGet(c, segment, "GET /api/messages/:userId", 200,
                     [messages |-> getMessages(session[c], otherUserId, limit)])

GET_api_messages_unread_count(c, segment, query) ==
  IF ~authenticated(c)
  THEN answersGet(c, segment, "GET /api/messages/unread-count", 401,
                  [message |-> "Authentication required"])
  ELSE answersGet(c, segment, "GET /api/messages/unread-count", 200,
                  [count |-> getUnreadMessageCount(session[c])])

\* the last path segments of requests and of the three GET routes below
\* /api/messages/, the routes in the order in which app.get registers them
conversations == <<"c", "o", "n", "v", "e", "r", "s", "a", "t", "i", "o", "n", "s">>
unread_count == <<"u", "n", "r", "e", "a", "d", "-", "c", "o", "u", "n", "t">>
param_userId == <<":", "u", "s", "e", "r", "I", "d">>
messageGetRoutes == <<conversations, param_userId, unread_count>>

\* a route parameter matches any segment that is not empty, a literal itself
matchesRoute(pattern, segment) ==
  IF pattern[1] = ":" THEN segment # <<>> ELSE pattern = segment

\* the router hands the request to the first route that matches, and no
\* handler passes it on
GET_api_messages(c, segment, query) ==
  LET matching == {i \in DOMAIN messageGetRoutes : matchesRoute(messageGetRoutes[i], segment)}
      route == messageGetRoutes[Min(matching)]
  IN /\ matching # {}
     /\ IF route = conversations THEN GET_api_messages_conversations(c, segment, query)
        ELSE IF route = param_userId THEN GET_api_messages_userId(c, segment, query)
        ELSE GET_api_messages_unread_count(c, segment, query)

\* request bodies: a post, a message to a user (with a sender of the
\* client's choice or none)
PostBody == {[title |-> Hello, content |-> World]}
MessageBody ==
  [receiverId : UserIds, content : {Hello}]
  \cup [receiverId : UserIds, content : {Hello}, senderId : UserIds]
\* PUT bodies that set the published flag, and that name an author
PublishPatch == {[published |-> b] : b \in BOOLEAN}
AuthorPatch == {[authorId |-> a] : a \in UserIds}
MessageSegments == {<<"1">>, <<"2">>, conversations, unread_count}
MessageQuery == {<<>>, [limit |-> <<"1">>]}

Register == \E c \in Clients, d \in UserData : POST_api_auth_register(c, d)
RegisterWith(D) == \E c \in Clients, d \in D : POST_api_auth_register(c, d)
RegisterHashed == \E r \in inflight : POST_api_auth_register_hashed(r)
Login == \E c \in Clients, d \in LoginData : POST_api_auth_login(c, d)
Logout == \E c \in Clients : POST_api_auth_logout(c)
Me == \E c \in Clients : GET_api_auth_me(c)
GetUserRoute == \E c \in Clients, id \in UserIds : GET_api_users_id(c, id)
SuggestedAuthors == \E c \in Clients : GET_api_suggested_authors(c, 5)
FollowRoute == \E c \in Clients, id \in UserIds : POST_api_users_id_follow(c, id)
ListPostsRoute == \E c \in Clients, q \in PostsQuery : GET_api_posts(c, q)
LikeRoute(P) == \E c \in Clients, id \in P : POST_api_posts_id_like(c, id)
BookmarkRoute(P) == \E c \in Clients, id \in P : POST_api_posts_id_bookmark(c, id)
CreatePostRoute == \E c \in Clients, body \in PostBody : POST_api_posts(c, body)
UpdatePostRoute(B) == \E c \in Clients, id \in PostIds, body \in B : PUT_api_posts_id(c, id, body)
SendMessageRoute(B) == \E c \in Clients, body \in B : POST_api_messages(c, body)
MarkReadRoute == \E c \in Clients, o \in UserIds : POST_api_messages_userId_read(c, o)
GetMessagesRoute ==
  \E c \in Clients, segment \in MessageSegments, query \in MessageQuery :
    GET_api_messages(c, segment, query)
DeletePostRoute == \E c \in Clients, id \in PostIds : DELETE_api_posts_id(c, id)

\* likes and bookmarks
NextLikes ==
  LikePost(UserIds) \/ UnlikePost(UserIds) \/ BookmarkPost(UserIds) \/ UnbookmarkPost(UserIds)
SpecLikes == Init /\ [][NextLikes]_vars

\* the enriched posts of a feed
NextEnrich ==
  \/ CreatePost(ScenarioPost) \/ LikePost(UserIds) \/ UnlikePost(UserIds)
  \/ BookmarkPost({2}) \/ UnbookmarkPost({2})
  \/ CreateComment({1}) \/ DeleteComment({1}) \/ GetPosts(Viewers)
SpecEnrich == Init /\ [][NextEnrich]_vars

\* what a viewer sees of posts and profiles
NextViewer ==
  \/ CreateUser(DistinctUsers) \/ CreatePost(ScenarioPost)
  \/ LikePost(UserIds) \/ UnlikePost(UserIds) \/ FollowUser \/ UnfollowUser
  \/ GetPosts(Viewers) \/ GetUserProfile(Viewers)
SpecViewer == Init /\ [][NextViewer]_vars

\* posts
NextPosts ==
  \/ CreatePost(PostData) \/ UpdatePost \/ DeletePost
  \/ GetPosts({undefined}) \/ GetPost({undefined}) \/ GetPostsByAuthor({undefined})
  \/ GetPostsByTag({undefined}) \/ SearchPosts({undefined})
SpecPosts == Init /\ [][NextPosts]_vars

\* the list queries, with the clock moving or not between calls
NextFeed ==
  \/ Tick \/ CreatePost(PostData) \/ UpdatePost
  \/ GetPostsPage \/ GetPostsByAuthor({undefined}) \/ GetPostsByTag({undefined})
  \/ SearchPostsFor(Queries)
SpecFeed == Init /\ [][NextFeed]_vars

\* the posts as listed through the API by clients that have not logged in
NextListPosts ==
  \/ CreatePost({d \in PostData : "published" \notin DOMAIN d})
  \/ ListPostsRoute
SpecListPosts == Init /\ [][NextListPosts]_vars

\* deleting posts through the API and comments in the store
NextDelete ==
  \/ CreateUser(DistinctUsers) \/ Login
  \/ CreatePost(ScenarioPost) \/ CreateComment({1}) \/ DeleteComment(UserIds)
  \/ DeletePostRoute
SpecDelete == Init /\ [][NextDelete]_vars

\* likes, bookmarks and follows, made and taken back
NextUndo ==
  \/ LikePost(UserIds) \/ UnlikePost(UserIds)
  \/ BookmarkPost({1}) \/ UnbookmarkPost({1})
  \/ FollowUser \/ UnfollowUser
SpecUndo == Init /\ [][NextUndo]_vars

\* requests of several clients, served as they come in: a registration waits
\* for its hash while other requests are served
NextRequests ==
  \/ Register \/ RegisterHashed \/ Login
  \/ LikeRoute({1}) \/ BookmarkRoute({1}) \/ FollowRoute
SpecRequests == Init /\ [][NextRequests]_vars

\* the social graph
NextFollows ==
  \/ CreateUser(DistinctUsers) \/ FollowUser \/ UnfollowUser \/ GetUserProfile(Viewers)
  \/ Login \/ FollowRoute
SpecFollows == Init /\ [][NextFollows]_vars

\* accounts, through the API
NextAccounts ==
  Register \/ RegisterHashed \/ Login \/ Logout \/ Me \/ GetUserRoute \/ SuggestedAuthors
SpecAccounts == Init /\ [][NextAccounts]_vars

\* accounts, through the API, with the requests served one after the other
NextAccountsSerial ==
  \/ inflight = {} /\ Register
  \/ RegisterHashed \/ Login \/ Logout \/ Me \/ GetUserRoute \/ SuggestedAuthors
SpecAccountsSerial == Init /\ [][NextAccountsSerial]_vars

\* messages
NextMessages ==
  \/ CreateUser(DistinctUsers) \/ SendMessage \/ MarkMessagesAsRead
  \/ GetConversations \/ GetUnreadMessageCount
SpecMessages == Init /\ [][NextMessages]_vars

\* conversations among stored users, with the clock moving or not between calls
NextConversations ==
  \/ Tick \/ CreateUser(DistinctUsers) \/ SendMessageToUser \/ MarkMessagesAsRead
  \/ GetConversations
SpecConversations == Init /\ [][NextConversations]_vars

\* the history of two users, with the clock moving or not between calls
NextHistory == Tick \/ SendMessage \/ GetMessages
SpecHistory == Init /\ [][NextHistory]_vars

\* a post that is liked, commented and bookmarked, and then deleted
NextOrphans ==
  \/ CreatePost(ScenarioPost) \/ LikePost({1}) \/ CreateComment({1}) \/ BookmarkPost({2})
  \/ DeletePost \/ GetUserBookmarks
SpecOrphans == Init /\ [][NextOrphans]_vars

\* posts, and comments written and deleted by either user
NextComments == CreatePost(ScenarioPost) \/ CreateComment(UserIds) \/ DeleteComment(UserIds)
SpecComments == Init /\ [][NextComments]_vars

\* posts, likes, bookmarks and follows created and deleted
NextIds ==
  \/ CreatePost(ScenarioPost) \/ DeletePost
  \/ LikePost({1}) \/ UnlikePost({1})
  \/ BookmarkPost({2}) \/ UnbookmarkPost({2})
  \/ FollowUser \/ UnfollowUser
SpecIds == Init /\ [][NextIds]_vars

\* messages through the API: accounts, sending, marking as read
NextInbox ==
  \/ RegisterWith(DistinctUsers) \/ RegisterHashed \/ Login
  \/ SendMessageRoute(MessageBody) \/ MarkReadRoute
SpecInbox == Init /\ [][NextInbox]_vars

\* the GET routes below /api/messages/, asked by clients that logged in
NextMessageRoutes ==
  \/ CreateUser(DistinctUsers) \/ Login
  \/ SendMessageRoute(MessageBody) \/ GetMessagesRoute
SpecMessageRoutes == Init /\ [][NextMessageRoutes]_vars

\* sessions that begin and end, and the guarded routes that write
NextGuard ==
  \/ CreateUser(DistinctUsers) \/ Login \/ Logout
  \/ CreatePostRoute \/ UpdatePostRoute(AuthorPatch)
  \/ LikeRoute({1})
SpecGuard == Init /\ [][NextGuard]_vars

\* authors who publish and withdraw their posts through the API
NextEdit ==
  \/ CreateUser(DistinctUsers) \/ Login
  \/ CreatePostRoute \/ UpdatePostRoute(PublishPatch)
SpecEdit == Init /\ [][NextEdit]_vars

\* posts published and withdrawn, bookmarked and queried
NextDrafts ==
  \/ CreatePost(ScenarioPost) \/ UpdatePost \/ BookmarkPost({2})
  \/ GetPosts({undefined}) \/ GetPost({undefined}) \/ GetPostsByAuthor({undefined})
  \/ GetPostsByTag({undefined}) \/ SearchPosts({undefined}) \/ GetUserBookmarks
SpecDrafts == Init /\ [][NextDrafts]_vars

----------------------------------------------------------------------------
(* Claims *)

\* the stored records of map m for the pair (userId, postId)
PairIds(m, userId, postId) ==
  {id \in DOMAIN m : m[id].userId = userId /\ m[id].postId = postId}

C1_AtMostOne ==
  \A u \in UserIds, p \in PostIds :
    /\ Cardinality(PairIds(likes, u, p)) <= 1
    /\ Cardinality(PairIds(bookmarks, u, p)) <= 1

C1_RepeatReturnsExisting ==
  /\ (ret'.op = "likePost" /\ PairIds(likes, ret'.args[1], ret'.args[2]) # {})
       => /\ likes' = likes
          /\ currentId' = currentId
          /\ ret'.val.id \in PairIds(likes, ret'.args[1], ret'.args[2])
          /\ ret'.val = likes[ret'.val.id]
  /\ (ret'.op = "bookmarkPost" /\ PairIds(bookmarks, ret'.args[1], ret'.args[2]) # {})
       => /\ bookmarks' = bookmarks
          /\ currentId' = currentId
          /\ ret'.val.id \in PairIds(bookmarks, ret'.args[1], ret'.args[2])
          /\ ret'.val = bookmarks[ret'.val.id]

\* C1: under any sequence of likePost, unlikePost, bookmarkPost and
\* unbookmarkPost the store holds at most one Like and at most one Bookmark
\* per (userId, postId); a likePost or bookmarkPost for a pair that is already
\* stored returns the stored record (same id) and adds no record.
C1_LikeBookmarkUnique == []C1_AtMostOne /\ [][C1_RepeatReturnsExisting]_vars

\* a likePost has returned a record that is not the newest one created (the
\* pair was already stored), with two bookmarks stored
C1_Witness ==
  /\ ret.op = "likePost"
  /\ ret.val.id < currentId.likes - 1
  /\ ret.val.id \in DOMAIN likes
  /\ Cardinality(DOMAIN bookmarks) = MaxBookmarks

----------------------------------------------------------------------------

LikesOf(postId) == {id \in DOMAIN likes : likes[id].postId = postId}
CommentsOf(postId) == {id \in DOMAIN comments : comments[id].postId = postId}

\* the counts and the bookmark flag of enriched post e, as seen by viewer v
CountsAreLive(e, v) ==
  /\ e.likeCount = Cardinality(LikesOf(e.id))
  /\ e.commentCount = Cardinality(CommentsOf(e.id))
  /\ e.isBookmarked <=> (v \in UserIds /\ PairIds(bookmarks, v, e.id) # {})

\* C2: every enriched post a query returns has likeCount equal to the number
\* of stored likes of the post, commentCount equal to the number of stored
\* comments of the post, and isBookmarked true exactly when the viewer's
\* bookmark of the post is stored.
C2_EnrichedCountsLive ==
  /\ ret.op = "getPosts" =>
       \A i \in 1..Len(ret.val) : CountsAreLive(ret.val[i], ret.args[3])
  /\ \A v \in Viewers, id \in PostIds :
       \A i \in 1..Len(getPost(id, v)) : CountsAreLive(getPost(id, v)[i], v)
  /\ \A u \in UserIds :
       \A i \in 1..Len(getUserBookmarks(u)) : CountsAreLive(getUserBookmarks(u)[i], u)

\* a feed returned to Bob: P with two likes, a comment and his bookmark, and a
\* second post with none
C2_Witness ==
  /\ ret.op = "getPosts"
  /\ ret.args[3] = 2
  /\ Len(ret.val) = 2
  /\ ret.val[1].likeCount = 2 /\ ret.val[1].commentCount = 1 /\ ret.val[1].isBookmarked
  /\ ret.val[2].likeCount = 0 /\ ret.val[2].commentCount = 1 /\ ~ret.val[2].isBookmarked

\* C3: isLiked of a post is true exactly when the viewer's own like of it is
\* stored, isFollowing of a profile exactly when the viewer's own follow of it
\* is stored; without a viewer both are false.
C3_ViewerFlagsOwn ==
  /\ ret.op = "getPosts" =>
       \A i \in 1..Len(ret.val) :
         ret.val[i].isLiked <=>
           (ret.args[3] \in UserIds /\ PairIds(likes, ret.args[3], ret.val[i].id) # {})
  /\ (ret.op = "getUserProfile" /\ ret.val # <<>>) =>
       (ret.val[1].isFollowing <=>
          /\ ret.args[2] \in UserIds
          /\ \E id \in DOMAIN follows :
               follows[id].followerId = ret.args[2] /\ follows[id].followingId = ret.args[1])

\* a feed returned to a viewer who has not liked a post that the other user
\* has liked, while a follow is stored
C3_Witness ==
  /\ ret.op = "getPosts"
  /\ ret.args[3] = 1
  /\ Len(ret.val) > 0
  /\ ret.val[1].likeCount = 1 /\ ~ret.val[1].isLiked
  /\ DOMAIN follows # {}

\* the ids of the posts in a query result
IdsIn(result) == {result[i].id : i \in 1..Len(result)}

\* getPosts with a limit that takes in the whole feed
wholeFeed == getPosts(currentId.posts, 0, undefined)

\* the posts some query returns
Returned ==
  UNION {IdsIn(wholeFeed), IdsIn(getPostsByTag(intro, undefined)),
         IdsIn(searchPosts(<<"o">>, undefined))}
  \cup UNION {IdsIn(getPost(id, undefined)) : id \in PostIds}
  \cup UNION {IdsIn(getPostsByAuthor(a, undefined)) : a \in UserIds}

\* the posts that were created and are no longer stored
Deleted == (1..(currentId.posts - 1)) \ DOMAIN posts

C4_DeleteStep ==
  \A id \in PostIds, a \in UserIds :
    (ret'.op = "deletePost" /\ ret'.args = <<id, a>> /\ id \in DOMAIN posts) =>
      IF a # posts[id].authorId
      THEN ret'.val = FALSE /\ posts' = posts
      ELSE ret'.val = TRUE /\ id \notin DOMAIN posts'

\* after a refused deletePost of a stored post, the post is returned if published
C4_RefusedStillReturned ==
  (/\ ret.op = "deletePost"
   /\ ~ret.val
   /\ ret.args[1] \in DOMAIN posts
   /\ posts[ret.args[1]].published) =>
    /\ ret.args[1] \in IdsIn(getPost(ret.args[1], undefined))
    /\ ret.args[1] \in IdsIn(wholeFeed)

\* C4: deletePost by another user than the post's author returns false and
\* leaves the post stored, and returned by getPost and getPosts if it is
\* published; deletePost by the author returns true, and from then on no
\* query returns the post.
C4_DeleteByAuthorOnly ==
  /\ [][C4_DeleteStep]_vars
  /\ []C4_RefusedStillReturned
  /\ [][Deleted \subseteq Deleted']_vars
  /\ [](Returned \cap Deleted = {})

\* a refused deletePost of a stored post, after another post was deleted
C4_Witness ==
  /\ ret.op = "deletePost"
  /\ ~ret.val
  /\ ret.args[1] \in DOMAIN posts
  /\ ret.args[1] \in IdsIn(wholeFeed)
  /\ Deleted # {}

\* C5: deletePost succeeds only for the user the post was created for.
C5_DeletedOnlyByCreator ==
  (ret.op = "deletePost" /\ ret.val) => ret.args[2] = postCreator[ret.args[1]]

FollowIds(followerId, followingId) ==
  {id \in DOMAIN follows :
     follows[id].followerId = followerId /\ follows[id].followingId = followingId}

C6_RepeatStep ==
  \A a \in UserIds, b \in UserIds :
    (ret'.op = "followUser" /\ ret'.args = <<a, b>> /\ a # b /\ FollowIds(a, b) # {}) =>
      /\ "val" \in DOMAIN ret'
      /\ ret'.val.id \in FollowIds(a, b)
      /\ ret'.val = follows[ret'.val.id]
      /\ Cardinality({id \in DOMAIN follows' : follows'[id].followerId = a
                                                /\ follows'[id].followingId = b}) = 1
      /\ Cardinality({id \in DOMAIN follows' : follows'[id].followingId = b})
           = getFollowerCount(b)
      /\ Cardinality({id \in DOMAIN follows' : follows'[id].followerId = a})
           = getFollowingCount(a)

\* C6: followUser(A, B) with A # B while A -> B is stored returns the stored
\* record, leaves exactly one A -> B record, and leaves getFollowerCount(B) and
\* getFollowingCount(A) as they were.
C6_FollowIdempotent ==
  /\ [][C6_RepeatStep]_vars
  /\ [](\A a \in UserIds, b \in UserIds : Cardinality(FollowIds(a, b)) <= 1)

\* a followUser has returned a record that is not the newest one created
C6_Witness ==
  /\ ret.op = "followUser"
  /\ "val" \in DOMAIN ret
  /\ ret.val.id < currentId.follows - 1
  /\ ret.val.id \in DOMAIN follows

followRoute == "POST /api/users/:id/follow"

C7_SelfFollowStep ==
  (ret'.op = "followUser" /\ ret'.args[1] = ret'.args[2]) =>
    /\ "error" \in DOMAIN ret'
    /\ "val" \notin DOMAIN ret'
    /\ follows' = follows
    /\ currentId' = currentId
    \* a new response of the follow route that is not the refusal of requireAuth
    /\ (resp' # resp /\ resp'.route = followRoute /\ resp'.status # 401) => resp'.status = 400

\* C7: followUser(A, A) raises its own error in every state, creates no Follow
\* and consumes no id; no Follow of a user by themselves is ever stored; the
\* follow route answers it 400, never 500.
C7_SelfFollowRejected ==
  /\ [][C7_SelfFollowStep]_vars
  /\ [](\A id \in DOMAIN follows : follows[id].followerId # follows[id].followingId)
  /\ [](resp.route = followRoute => resp.status \in {200, 400, 401})
  /\ []((resp.route = followRoute /\ resp.status = 200) =>
          resp.body.follow.followerId # resp.body.follow.followingId)

\* the follow route has answered a self-follow, while follows are stored
C7_Witness ==
  /\ resp.route = followRoute
  /\ resp.status = 400
  /\ ret.op = "followUser"
  /\ "error" \in DOMAIN ret
  /\ DOMAIN follows # {}

\* C8: no two stored users share an email or a username, so that
\* getUserByEmail and getUserByUsername return each user for their own.
C8_EmailUsernameUnique ==
  \A i \in DOMAIN users :
    /\ values(users)[getUserByEmail(users[i].email)] = users[i]
    /\ values(users)[getUserByUsername(users[i].username)] = users[i]
    /\ \A j \in DOMAIN users \ {i} :
         users[i].email # users[j].email /\ users[i].username # users[j].username

\* C9: no response that carries a user or a profile carries a password.
C9_NoPasswordInResponse ==
  /\ "user" \in DOMAIN resp.body => "password" \notin DOMAIN resp.body.user
  /\ "authors" \in DOMAIN resp.body =>
       \A i \in 1..Len(resp.body.authors) : "password" \notin DOMAIN resp.body.authors[i]

UnreadTo(userId) == {id \in DOMAIN messages : messages[id].receiverId = userId /\ ~messages[id].isRead}
UnreadFromTo(otherUserId, userId) == {id \in UnreadTo(userId) : messages[id].senderId = otherUserId}
SendersTo(userId) ==
  {messages[id].senderId : id \in {k \in DOMAIN messages : messages[k].receiverId = userId}}

\* C10: getUnreadMessageCount(U) is the number of stored unread messages to U;
\* right after markMessagesAsRead(U, S) no message from S to U is unread, the
\* entry of S in getConversations(U) has unreadCount 0, and getUnreadMessageCount(U)
\* is 0 when S is the only sender of U.
C10_UnreadCounts ==
  /\ \A u \in UserIds : getUnreadMessageCount(u) = Cardinality(UnreadTo(u))
  /\ ret.op = "getUnreadMessageCount" => ret.val = Cardinality(UnreadTo(ret.args[1]))
  /\ ret.op = "markMessagesAsRead" =>
       LET U == ret.args[1]
           S == ret.args[2]
           cs == getConversations(U)
       IN /\ UnreadFromTo(S, U) = {}
          /\ \A i \in 1..Len(cs) : cs[i].participant.id = S => cs[i].unreadCount = 0
          /\ SendersTo(U) \subseteq {S} => getUnreadMessageCount(U) = 0

\* Bob has opened the conversation with Alice, who had sent him unread
\* messages and is his only sender
C10_Witness ==
  /\ ret.op = "markMessagesAsRead"
  /\ ret.val
  /\ ret.args = <<2, 1>>
  /\ SendersTo(2) = {1}
  /\ Cardinality({id \in DOMAIN messages : messages[id].receiverId = 2}) >= 2
  /\ \E i \in 1..Len(getConversations(2)) : getConversations(2)[i].participant.id = 1

\* what a step may do to a stored message
C11_ReadStep ==
  \A id \in DOMAIN messages :
    /\ id \in DOMAIN messages'
    /\ messages[id].isRead => messages'[id].isRead
    /\ messages'[id] = Spread(messages[id], [isRead |-> messages'[id].isRead])
    /\ (~messages[id].isRead /\ messages'[id].isRead) =>
         /\ ret'.op = "markMessagesAsRead"
         /\ ret'.args = <<messages[id].receiverId, messages[id].senderId>>

\* C11: the read flag of a stored message only moves from unread to read, and
\* only in a markMessagesAsRead called by the receiver with the sender as the
\* other party; no other field of a stored message ever changes and no
\* message is ever removed.
C11_ReadOneWay == [][C11_ReadStep]_vars

\* Bob has read what Alice sent him, while what he sent her is still unread
C11_Witness ==
  /\ ret.op = "markMessagesAsRead"
  /\ ret.args = <<2, 1>>
  /\ ret.val
  /\ \E id \in DOMAIN messages :
       messages[id].senderId = 1 /\ messages[id].receiverId = 2 /\ messages[id].isRead
  /\ \E id \in DOMAIN messages :
       messages[id].senderId = 2 /\ messages[id].receiverId = 1 /\ ~messages[id].isRead

\* C12: every message sendMessage stores starts unread: right after a
\* sendMessage the message it returned is stored with isRead false.
C12_NewMessageUnread ==
  ret.op = "sendMessage" =>
    /\ ret.val.id \in DOMAIN messages
    /\ messages[ret.val.id] = ret.val
    /\ ~ret.val.isRead

Between(userId, otherUserId) ==
  {id \in DOMAIN messages :
     \/ messages[id].senderId = userId /\ messages[id].receiverId = otherUserId
     \/ messages[id].senderId = otherUserId /\ messages[id].receiverId = userId}
Correspondents(userId) == {c \in UserIds : Between(userId, c) # {}}

\* C13: getConversations(U) has exactly one entry per correspondent of U; its
\* lastMessage is the message sent last between the two (ids are given in the
\* order of sending), its unreadCount is the number of unread messages from
\* the correspondent to U, and the entries are ordered by the time of
\* lastMessage, newest first.
C13_Conversations ==
  ret.op = "getConversations" =>
    LET U == ret.args[1]
        cs == ret.val
    IN /\ Len(cs) = Cardinality(Correspondents(U))
       /\ {cs[i].participant.id : i \in 1..Len(cs)} = Correspondents(U)
       /\ \A i \in 1..Len(cs) :
            LET C == cs[i].participant.id
            IN /\ cs[i].lastMessage = messages[Max(Between(U, C))]
               /\ cs[i].unreadCount = Cardinality(UnreadFromTo(C, U))
       /\ \A i \in 1..Len(cs) : \A j \in i..Len(cs) :
            cs[i].lastMessage.createdAt >= cs[j].lastMessage.createdAt

\* a letter and its other case
CasePairs == {<<"H", "h">>, <<"W", "w">>, <<"E", "e">>, <<"N", "n">>, <<"T", "t">>}
SameLetter(a, b) == a = b \/ <<a, b>> \in CasePairs \/ <<b, a>> \in CasePairs
ContainsCI(str, q) ==
  \E i \in 0..(Len(str) - Len(q)) : \A k \in 1..Len(q) : SameLetter(str[i + k], q[k])
Matching(q) ==
  {id \in DOMAIN posts :
     /\ posts[id].published
     /\ \/ ContainsCI(posts[id].title, q)
        \/ ContainsCI(posts[id].content, q)
        \/ /\ "tags" \in DOMAIN posts[id]
           /\ \E i \in 1..Len(posts[id].tags) : ContainsCI(posts[id].tags[i], q)}
NewestFirst(result) ==
  \A i \in 1..Len(result) : \A j \in i..Len(result) :
    result[i].createdAt >= result[j].createdAt

\* C14: searchPosts(q) returns exactly the published posts whose title,
\* content or some tag contains q whatever the case of the letters, each
\* once, newest first; posts without tags are searched by title and content,
\* and a query nothing matches gives the empty list.
C14_SearchExact ==
  ret.op = "searchPosts" =>
    /\ IdsIn(ret.val) = Matching(ret.args[1])
    /\ Len(ret.val) = Cardinality(Matching(ret.args[1]))
    /\ NewestFirst(ret.val)
    /\ \A i \in 1..Len(ret.val) :
         \A k \in DOMAIN posts[ret.val[i].id] : ret.val[i][k] = posts[ret.val[i].id][k]

\* a search in another case than the tag's finds the tagged post and leaves
\* out a published post that has no tags
C14_Witness ==
  /\ ret.op = "searchPosts"
  /\ ret.args[1] = <<"N", "t">>
  /\ Len(ret.val) = 1
  /\ Cardinality(DOMAIN posts) = 2
  /\ \E id \in DOMAIN posts : "tags" \notin DOMAIN posts[id] /\ posts[id].published

\* C15: GET /api/posts answers in one mode, chosen by the parameters that are
\* present: the search result when search is present, whatever the other
\* parameters; else the tag filter's when tag is present; else the author
\* filter's when authorId is present; the default feed only when none of the
\* three is present.  (The clients of the specification have no session, and
\* ret holds the store call of the last request.)
C15_FilterPriority ==
  (resp.route = "GET /api/posts"
   /\ ret.op \in {"searchPosts", "getPostsByTag", "getPostsByAuthor", "getPosts"}) =>
    LET query == resp.query
        result == resp.body.posts
    IN /\ "search" \in DOMAIN query => result = searchPosts(query.search, undefined)
       /\ ("search" \notin DOMAIN query /\ "tag" \in DOMAIN query) =>
            result = getPostsByTag(query.tag, undefined)
       /\ ({"search", "tag"} \cap DOMAIN query = {} /\ "authorId" \in DOMAIN query) =>
            result = getPostsByAuthor(parseInt(query.authorId), undefined)
       /\ ret.op = "getPosts" => {"search", "tag", "authorId"} \cap DOMAIN query = {}

Published == {id \in DOMAIN posts : posts[id].published}
Newer(id) == {k \in Published : posts[k].createdAt > posts[id].createdAt}
NotOlder(id) == {k \in Published : posts[k].createdAt >= posts[id].createdAt}
ListModes == {"getPosts", "getPostsByAuthor", "getPostsByTag", "searchPosts"}

\* C16: every list query returns published posts only, each once, newest
\* first; getPostsByAuthor, getPostsByTag and searchPosts return every match,
\* and getPosts(limit, offset) returns the posts at positions offset ..
\* offset + limit - 1 (counted from 0) of the published posts newest first.
C16_ListModes ==
  ret.op \in ListModes =>
    /\ IdsIn(ret.val) \subseteq Published
    /\ Cardinality(IdsIn(ret.val)) = Len(ret.val)
    /\ NewestFirst(ret.val)
    /\ ret.op = "getPostsByAuthor" =>
         IdsIn(ret.val) = {id \in Published : posts[id].authorId = ret.args[1]}
    /\ ret.op = "getPostsByTag" =>
         IdsIn(ret.val) =
           {id \in Published : /\ "tags" \in DOMAIN posts[id]
                                /\ \E i \in 1..Len(posts[id].tags) :
                                     posts[id].tags[i] = ret.args[1]}
    /\ ret.op = "searchPosts" => IdsIn(ret.val) = Matching(ret.args[1])
    /\ ret.op = "getPosts" =>
         LET limit == ret.args[1]
             offset == ret.args[2]
             rest == Cardinality(Published) - offset
         IN /\ Len(ret.val) = (IF rest <= 0 THEN 0 ELSE IF rest < limit THEN rest ELSE limit)
            /\ \A i \in 1..Len(ret.val) :
                 /\ Cardinality(Newer(ret.val[i].id)) < offset + i
                 /\ Cardinality(NotOlder(ret.val[i].id)) >= offset + i

\* the second page of one post, of a feed of two posts written at different
\* times, holds the older post
C16_Witness ==
  /\ ret.op = "getPosts"
  /\ ret.args[1] = 1
  /\ ret.args[2] = 1
  /\ Cardinality(Published) = 2
  /\ Len(ret.val) = 1
  /\ Newer(ret.val[1].id) # {}

\* C17: every Like, Bookmark and Comment refers to a stored post and a stored
\* user, and every Follow and Message refers to stored users.
C17_ReferentialIntegrity ==
  /\ \A id \in DOMAIN likes :
       likes[id].postId \in DOMAIN posts /\ likes[id].userId \in DOMAIN users
  /\ \A id \in DOMAIN bookmarks :
       bookmarks[id].postId \in DOMAIN posts /\ bookmarks[id].userId \in DOMAIN users
  /\ \A id \in DOMAIN comments :
       comments[id].postId \in DOMAIN posts /\ comments[id].userId \in DOMAIN users
  /\ \A id \in DOMAIN follows :
       follows[id].followerId \in DOMAIN users /\ follows[id].followingId \in DOMAIN users
  /\ \A id \in DOMAIN messages :
       messages[id].senderId \in DOMAIN users /\ messages[id].receiverId \in DOMAIN users

deleteRoute == "DELETE /api/posts/:id"
refused == [route |-> deleteRoute, status |-> 404,
            body |-> [message |-> "Post not found or not authorized"]]

\* a deletePost or deleteComment for a missing id, or by another user than the
\* owner, returns false, raises nothing and leaves the store as it is
C18_RefusalStep ==
  \A id \in PostIds \cup (1..MaxComments), a \in UserIds :
    /\ (/\ ret' # ret
        /\ ret'.op = "deletePost"
        /\ ret'.args = <<id, a>>
        /\ (id \notin DOMAIN posts \/ posts[id].authorId # a)) =>
         (ret' = [op |-> "deletePost", args |-> <<id, a>>, val |-> FALSE] /\ store' = store)
    /\ (/\ ret' # ret
        /\ ret'.op = "deleteComment"
        /\ ret'.args = <<id, a>>
        /\ (id \notin DOMAIN comments \/ comments[id].userId # a)) =>
         (ret' = [op |-> "deleteComment", args |-> <<id, a>>, val |-> FALSE] /\ store' = store)

\* the delete-post route has one answer for every deletePost that returned false
C18_OneAnswer ==
  (resp.route = deleteRoute /\ resp.status # 401 /\ ret.op = "deletePost") =>
    IF ret.val THEN resp.status = 200 ELSE resp = refused

\* C18: for deletePost and deleteComment a call by a non-owner and a call on
\* a missing id give the same result: false, no error, the store unchanged;
\* and the delete-post route answers both with the same status and message.
C18_RefusalLikeAbsence == [][C18_RefusalStep]_vars /\ []C18_OneAnswer

\* Bob has asked the route to delete Alice's post and got the answer
\* of a missing post, while the post is still stored
C18_Witness ==
  /\ resp = refused
  /\ ret.op = "deletePost"
  /\ ret.args[1] \in DOMAIN posts
  /\ posts[ret.args[1]].authorId # ret.args[2]

\* what a take-back of the pair `found` in map m does to m: nothing and false
\* when there is no such record, else true and exactly that record removed
TakenBack(m, mNext, found) ==
  /\ "error" \notin DOMAIN ret'
  /\ IF found = {}
     THEN ret'.val = FALSE /\ mNext = m
     ELSE ret'.val = TRUE /\ \E k \in found : mNext = MapDelete(m, k)

C19_UndoStep ==
  \A a \in UserIds, b \in UserIds \cup PostIds :
    /\ (ret'.op = "unlikePost" /\ ret'.args = <<a, b>>) =>
         /\ TakenBack(likes, likes', PairIds(likes, a, b))
         /\ UNCHANGED <<users, posts, comments, bookmarks, follows, messages, currentId>>
    /\ (ret'.op = "unbookmarkPost" /\ ret'.args = <<a, b>>) =>
         /\ TakenBack(bookmarks, bookmarks', PairIds(bookmarks, a, b))
         /\ UNCHANGED <<users, posts, comments, likes, follows, messages, currentId>>
    /\ (ret'.op = "unfollowUser" /\ ret'.args = <<a, b>>) =>
         /\ TakenBack(follows, follows', FollowIds(a, b))
         /\ UNCHANGED <<users, posts, comments, likes, bookmarks, messages, currentId>>

\* C19: unlikePost, unbookmarkPost and unfollowUser return false, raise
\* nothing and leave the store unchanged when no matching record is stored;
\* they return true and remove exactly that record when one is, leaving every
\* other like, bookmark and follow, the follow in the other direction included.
C19_UndoExact == [][C19_UndoStep]_vars

\* Alice has stopped following Bob while Bob still follows Alice and a like
\* is stored
C19_Witness ==
  /\ ret.op = "unfollowUser"
  /\ ret.val
  /\ FollowIds(ret.args[1], ret.args[2]) = {}
  /\ FollowIds(ret.args[2], ret.args[1]) # {}
  /\ DOMAIN likes # {}

\* while a store operation is suspended, the next thing to happen is that it
\* completes
C20_NextCompletes == inflight # {} => \E r \in inflight : inflight' = inflight \ {r}

C20_PairsUnique ==
  /\ \A u \in UserIds, p \in PostIds :
       Cardinality(PairIds(likes, u, p)) <= 1 /\ Cardinality(PairIds(bookmarks, u, p)) <= 1
  /\ \A a \in UserIds, b \in UserIds : Cardinality(FollowIds(a, b)) <= 1

\* C20: each store operation runs to completion before the next is processed,
\* whatever the interleaving of the requests; in particular nothing runs
\* between the scan and the insert of likePost, bookmarkPost and followUser,
\* and overlapping identical requests never store a pair twice.
C20_RunToCompletion == [][C20_NextCompletes]_vars /\ []C20_PairsUnique

\* C21: getMessages(U, O, limit) returns messages between U and O only, each
\* once, oldest first, and for every limit >= 0 it returns min(limit, n) of
\* the n messages between the two, none of them older than a message it
\* leaves out.
C21_GetMessagesLimit ==
  ret.op = "getMessages" =>
    LET U == ret.args[1]
        O == ret.args[2]
        limit == ret.args[3]
        n == Cardinality(Between(U, O))
    IN /\ IdsIn(ret.val) \subseteq Between(U, O)
       /\ Cardinality(IdsIn(ret.val)) = Len(ret.val)
       /\ \A i \in 1..Len(ret.val) : \A j \in i..Len(ret.val) :
            ret.val[i].createdAt <= ret.val[j].createdAt
       /\ Len(ret.val) = (IF limit < n THEN limit ELSE n)
       /\ \A k \in Between(U, O) \ IdsIn(ret.val) : \A i \in 1..Len(ret.val) :
            messages[k].createdAt <= ret.val[i].createdAt

C22_MarkStep ==
  \A U \in UserIds, S \in UserIds :
    (ret'.op = "markMessagesAsRead" /\ ret'.args = <<U, S>>) =>
      /\ DOMAIN messages' = DOMAIN messages
      /\ \A id \in DOMAIN messages :
           messages'[id] = IF id \in UnreadFromTo(S, U)
                           THEN [messages[id] EXCEPT !.isRead = TRUE]
                           ELSE messages[id]
      /\ ret'.val = (UnreadFromTo(S, U) # {})
      /\ UNCHANGED <<users, posts, likes, comments, bookmarks, follows, currentId>>

\* C22: markMessagesAsRead(U, S) sets isRead on exactly the unread messages
\* from S to U and leaves every other message as it is, adds and removes no
\* message, changes nothing else in the store, and returns true iff it
\* marked at least one message.
C22_MarkFrame == [][C22_MarkStep]_vars

\* Bob has marked Alice's messages as read while a message he sent to
\* himself is still unread
C22_Witness ==
  /\ ret.op = "markMessagesAsRead"
  /\ ret.args = <<2, 1>>
  /\ ret.val
  /\ \E id \in DOMAIN messages :
       messages[id].senderId = 1 /\ messages[id].receiverId = 2 /\ messages[id].isRead
  /\ \E id \in DOMAIN messages :
       messages[id].senderId = 2 /\ messages[id].receiverId = 2 /\ ~messages[id].isRead

\* the bookmarks of a user whose post is stored
LiveBookmarks(userId) ==
  {id \in DOMAIN bookmarks : bookmarks[id].userId = userId /\ bookmarks[id].postId \in DOMAIN posts}

C23_DeleteStep ==
  ret'.op = "deletePost" =>
    UNCHANGED <<users, likes, comments, bookmarks, follows, messages, currentId>>

C23_CountsAndBookmarks ==
  /\ \A p \in PostIds :
       /\ getPostLikeCount(p) = Cardinality(LikesOf(p))
       /\ getCommentCount(p) = Cardinality(CommentsOf(p))
  /\ ret.op = "getUserBookmarks" =>
       /\ IdsIn(ret.val) = {bookmarks[id].postId : id \in LiveBookmarks(ret.args[1])}
       /\ Len(ret.val) = Cardinality(LiveBookmarks(ret.args[1]))

\* C23: deletePost changes the posts map only: the likes, comments and
\* bookmarks of the deleted post stay stored, getPostLikeCount and
\* getCommentCount of its id count them as before, and getUserBookmarks
\* leaves the deleted post out without failing.
C23_DeleteLeavesOrphans == [][C23_DeleteStep]_vars /\ []C23_CountsAndBookmarks

\* Bob's bookmarks are listed after the post he bookmarked was deleted: the
\* list is empty, and the like and the comment of the post are still counted
C23_Witness ==
  /\ ret.op = "getUserBookmarks"
  /\ ret.args = <<2>>
  /\ ret.val = <<>>
  /\ \E id \in DOMAIN bookmarks :
       bookmarks[id].userId = 2 /\ bookmarks[id].postId \in Deleted
  /\ \E p \in Deleted : getPostLikeCount(p) > 0 /\ getCommentCount(p) > 0

C24_DeleteCommentStep ==
  \A id \in 1..MaxComments, X \in UserIds :
    (ret'.op = "deleteComment" /\ ret'.args = <<id, X>>) =>
      IF id \in DOMAIN comments /\ comments[id].userId = X
      THEN /\ ret'.val = TRUE
           /\ comments' = MapDelete(comments, id)
           /\ \A p \in PostIds :
                Cardinality({k \in DOMAIN comments' : comments'[k].postId = p})
                  = Cardinality(CommentsOf(p)) - (IF p = comments[id].postId THEN 1 ELSE 0)
      ELSE ret'.val = FALSE /\ comments' = comments

\* C24: deleteComment(id, X) removes the comment and returns true iff the
\* comment is stored and X wrote it, and otherwise returns false and leaves
\* the comments as they are; a deletion lowers the comment count of the
\* comment's post by one and of no other post, getCommentCount being the
\* number of stored comments of the post.
C24_CommentByAuthorOnly ==
  /\ [][C24_DeleteCommentStep]_vars
  /\ [](\A p \in PostIds : getCommentCount(p) = Cardinality(CommentsOf(p)))

\* Alice has deleted her comment, and Bob's comment on the same post is left
C24_Witness ==
  /\ ret.op = "deleteComment"
  /\ ret.val
  /\ ret.args[2] = 1
  /\ ret.args[1] \notin DOMAIN comments
  /\ \E k \in DOMAIN comments : comments[k].userId = 2

\* one entity type in one step: a key that enters the map is the counter's
\* value, the counter is then one higher, and otherwise the counter stays
IdStep(m, mNext, c, cNext) ==
  LET new == DOMAIN mNext \ DOMAIN m
  IN /\ cNext >= c
     /\ new = {} => cNext = c
     /\ new # {} => new = {c} /\ cNext = c + 1 /\ mNext[c].id = c

IdsBelow(m, c) == \A id \in DOMAIN m : id < c /\ m[id].id = id

\* a likePost, bookmarkPost or followUser that returned a record stored before
ReturnsExisting ==
  /\ "val" \in DOMAIN ret'
  /\ \/ ret'.op = "likePost" /\ ret'.val.id \in DOMAIN likes
     \/ ret'.op = "bookmarkPost" /\ ret'.val.id \in DOMAIN bookmarks
     \/ ret'.op = "followUser" /\ ret'.val.id \in DOMAIN follows

C25_IdsStep ==
  /\ IdStep(users, users', currentId.users, currentId'.users)
  /\ IdStep(posts, posts', currentId.posts, currentId'.posts)
  /\ IdStep(likes, likes', currentId.likes, currentId'.likes)
  /\ IdStep(comments, comments', currentId.comments, currentId'.comments)
  /\ IdStep(bookmarks, bookmarks', currentId.bookmarks, currentId'.bookmarks)
  /\ IdStep(follows, follows', currentId.follows, currentId'.follows)
  /\ IdStep(messages, messages', currentId.messages, currentId'.messages)
  /\ ReturnsExisting => currentId' = currentId

C25_IdsBelowCounter ==
  /\ IdsBelow(users, currentId.users)
  /\ IdsBelow(posts, currentId.posts)
  /\ IdsBelow(likes, currentId.likes)
  /\ IdsBelow(comments, currentId.comments)
  /\ IdsBelow(bookmarks, currentId.bookmarks)
  /\ IdsBelow(follows, currentId.follows)
  /\ IdsBelow(messages, currentId.messages)

\* C25: the counters never decrease; a record that enters a map gets the
\* counter's value as its id and the counter moves past it, so that with every
\* stored id below its counter no id is given out twice, also after
\* deletions; a likePost, bookmarkPost or followUser that returns a record
\* stored before leaves every counter as it was.
C25_IdsNeverReused == [][C25_IdsStep]_vars /\ []C25_IdsBelowCounter

\* post 1 was deleted and the next post got id 2, and a repeated like
\* returned the stored like
C25_Witness ==
  /\ DOMAIN posts = {2}
  /\ currentId.posts = 3
  /\ ret.op = "likePost"
  /\ currentId.likes = 2
  /\ DOMAIN likes = {1}
  /\ ret.val = likes[1]

\* C26: GET /api/messages/unread-count of a client with a session is answered
\* by the unread-count handler, with the number of unread messages addressed
\* to the session's user, and not by the handler of /api/messages/:userId.
C26_UnreadCountRoute ==
  ("segment" \in DOMAIN resp /\ resp.segment = unread_count /\ resp.status # 401) =>
    /\ resp.route = "GET /api/messages/unread-count"
    /\ resp.body = [count |-> getUnreadMessageCount(session[resp.client])]

\* a request of client c to one of the guarded routes that write
GuardedRequest(c) ==
  \/ \E body \in PostBody : POST_api_posts(c, body)
  \/ \E id \in PostIds, body \in AuthorPatch : PUT_api_posts_id(c, id, body)
  \/ \E id \in PostIds : POST_api_posts_id_like(c, id)

\* the users that hold a session
SessionUsers == {session[c] : c \in {d \in Clients : authenticated(d)}}

\* the records of m that the step wrote, and the ones it changed or removed
Written(m, mNext) == {id \in DOMAIN mNext : id \notin DOMAIN m \/ mNext[id] # m[id]}
Touched(m, mNext) == {id \in DOMAIN m : id \notin DOMAIN mNext \/ mNext[id] # m[id]}

C27_Refused ==
  \A c \in Clients :
    (~authenticated(c) /\ GuardedRequest(c)) =>
      /\ resp'.status = 401
      /\ UNCHANGED <<users, posts, likes, comments, bookmarks, follows, messages>>

C27_Guarded ==
  <<posts, likes, comments, bookmarks, follows, messages>>'
      # <<posts, likes, comments, bookmarks, follows, messages>>
    => SessionUsers # {} /\ resp'.status # 401

C27_AsSessionUser ==
  /\ \A id \in Written(posts, posts') : posts'[id].authorId \in SessionUsers
  /\ \A id \in Touched(posts, posts') : posts[id].authorId \in SessionUsers
  /\ \A id \in Written(likes, likes') : likes'[id].userId \in SessionUsers
  /\ \A id \in Touched(likes, likes') : likes[id].userId \in SessionUsers

\* C27: a request to a guarded route of a client whose session holds no
\* userId is answered 401 and leaves every entity map as it is; a step that
\* changes posts, likes, bookmarks, comments, follows or messages is a request
\* of a client with a session, and the records it writes, changes or removes
\* are those of a user who holds a session.
C27_GuardedRoutes == [][C27_Refused /\ C27_Guarded /\ C27_AsSessionUser]_vars

\* the refusal and the guard alone, which hold in every step
C27_RefusedAlways == [][C27_Refused /\ C27_Guarded]_vars

C28_PutStep ==
  \A c \in Clients, id \in PostIds, body \in PublishPatch :
    (/\ authenticated(c)
     /\ id \in DOMAIN posts
     /\ posts[id].authorId = session[c]
     /\ PUT_api_posts_id(c, id, body)) =>
      /\ resp'.status # 404
      /\ posts'[id].published = body.published

\* C28: PUT /api/posts/:id of the author of a stored post is applied and is
\* not answered not-found, whatever was updated before.
C28_AuthorCanUpdate == [][C28_PutStep]_vars

\* C29: getPosts, getPost, getPostsByAuthor, getPostsByTag, searchPosts and
\* getUserBookmarks return published posts only.
C29_OnlyPublished ==
  ret.op \in {"getPosts", "getPost", "getPostsByAuthor", "getPostsByTag",
              "searchPosts", "getUserBookmarks"} =>
    \A i \in DOMAIN ret.val : ret.val[i].published

\* the same of the five queries that filter
C29_FilteredQueries ==
  ret.op \in {"getPosts", "getPost", "getPostsByAuthor", "getPostsByTag", "searchPosts"} =>
    \A i \in DOMAIN ret.val : ret.val[i].published

RECURSIVE SumUnread(_)
SumUnread(entries) ==
  IF entries = <<>> THEN 0 ELSE Head(entries).unreadCount + SumUnread(Tail(entries))

\* C30: in every state reached through the API, the unread counts of the
\* entries of getConversations(U) add up to getUnreadMessageCount(U), for
\* every user U.
C30_UnreadViewsAgree ==
  \A U \in UserIds : SumUnread(getConversations(U)) = getUnreadMessageCount(U)

\* user 1 has unread messages in two conversations, one of them with
\* themselves, and has read a message
C30_Witness ==
  /\ Len(getConversations(1)) = 2
  /\ \A i \in 1..2 : getConversations(1)[i].unreadCount > 0
  /\ getUnreadMessageCount(1) = 2
  /\ \E id \in DOMAIN messages : messages[id].receiverId = 1 /\ messages[id].isRead

====
